---- MODULE Spec2Model ----
(***************************************************************************)
(* Model of the sales ETL pipeline: the cleaning steps of                  *)
(* etl_pipeline/transform.py, the entity modelling of etl_pipeline/load.py *)
(* and the orchestration of etl_pipeline/etl_flow.py.                      *)
(*                                                                         *)
(* A DataFrame is a record [cols, rows]; rows is a sequence of records     *)
(* keyed by column name.  A cell is a tagged value: null (NaN/None), a     *)
(* number, or a string (a sequence of one-character strings, so that       *)
(* str.strip and pd.to_numeric can be computed).  DataFrames live in a     *)
(* heap and are named by reference, so that copy() and in-place column     *)
(* assignment are distinguishable.                                         *)
(***************************************************************************)
EXTENDS Integers, Sequences, FiniteSets, TLC

\* ------------------------------------------------------------------ bounds
\* Largest number of rows of a raw record set.
MaxRows == 2

\* Largest number of rows of a record set handed to a single cleaning step.
StepRows == 4

\* ------------------------------------------------------------------- cells
Null == [t |-> "null", n |-> 0, s |-> <<>>]
Num(x) == [t |-> "num", n |-> x, s |-> <<>>]
Str(q) == [t |-> "str", n |-> 0, s |-> q]

\* Series.isnull / notnull on one cell.
IsNull(v) == v.t = "null"
NotNull(v) == v.t # "null"

\* Elementwise == of pandas: NaN equals nothing, not even NaN.
EqCell(a, b) == NotNull(a) /\ NotNull(b) /\ a = b

RECURSIVE LStrip(_)
LStrip(q) == IF Len(q) > 0 /\ Head(q) = " " THEN LStrip(Tail(q)) ELSE q

RECURSIVE RStrip(_)
RStrip(q) ==
    IF Len(q) > 0 /\ q[Len(q)] = " " THEN RStrip(SubSeq(q, 1, Len(q) - 1)) ELSE q

\* str.strip() of one string: leading and trailing blanks go.
Strip(q) == RStrip(LStrip(q))

\* Series.str.strip() on one cell of an object column: a non-string element
\* (a number, a missing value) comes out as NaN.
StrStripCell(v) == IF v.t = "str" THEN Str(Strip(v.s)) ELSE Null

DigitChars == {"0", "1", "2", "3", "4", "5", "6", "7", "8", "9"}

DigitVal(c) ==
    CASE c = "0" -> 0 [] c = "1" -> 1 [] c = "2" -> 2 [] c = "3" -> 3
      [] c = "4" -> 4 [] c = "5" -> 5 [] c = "6" -> 6 [] c = "7" -> 7
      [] c = "8" -> 8 [] OTHER -> 9

RECURSIVE ParseDigits(_, _)
ParseDigits(q, acc) ==
    IF Len(q) = 0 THEN acc ELSE ParseDigits(Tail(q), 10 * acc + DigitVal(Head(q)))

\* pd.to_numeric(..., errors='coerce') on one cell: a number stays, a string
\* of digits parses, anything else (garbage, the empty string) becomes NaN.
ToNumericCell(v) ==
    CASE v.t = "num" -> v
      [] v.t = "str" ->
            IF Len(v.s) > 0 /\ \A i \in 1..Len(v.s) : v.s[i] \in DigitChars
            THEN Num(ParseDigits(v.s, 0))
            ELSE Null
      [] OTHER -> Null

\* Sort order of cell values (numbers by value, strings by code point), used
\* by Series.mode() to order tied values.
CharRank(c) ==
    CASE c = " " -> 0
      [] c \in DigitChars -> 1 + DigitVal(c)
      [] c = "A" -> 11 [] c = "B" -> 12 [] c = "C" -> 13 [] c = "D" -> 14
      [] c = "J" -> 15 [] c = "M" -> 16 [] c = "P" -> 17 [] c = "T" -> 18
      [] c = "U" -> 19 [] OTHER -> 20

RECURSIVE SeqLess(_, _)
SeqLess(a, b) ==
    IF Len(b) = 0 THEN FALSE
    ELSE IF Len(a) = 0 THEN TRUE
    ELSE IF CharRank(Head(a)) # CharRank(Head(b))
         THEN CharRank(Head(a)) < CharRank(Head(b))
         ELSE SeqLess(Tail(a), Tail(b))

CellLess(a, b) ==
    IF a.t = "num" /\ b.t = "num" THEN a.n < b.n
    ELSE IF a.t = "str" /\ b.t = "str" THEN SeqLess(a.s, b.s)
    ELSE a.t = "num" /\ b.t = "str"

\* ------------------------------------------------------------------ frames
RequiredFields ==
    {"transaction_id", "day_of_week", "product_name", "product_category",
     "price", "quantity_sold", "total_sale", "store_location", "customer_name"}

NumericFields == {"transaction_id", "price", "quantity_sold", "total_sale"}

Frame(cols, rows) == [cols |-> cols, rows |-> rows]

\* The positions of a frame's rows.
Idx(d) == 1..Len(d.rows)

\* The values of column c, as a sequence in row order.
Column(d, c) == [i \in Idx(d) |-> d.rows[i][c]]

\* df[c] = vals: assignment of a whole column, vals in row order.
SetColumn(d, c, vals) ==
    Frame(d.cols, [i \in Idx(d) |-> [d.rows[i] EXCEPT ![c] = vals[i]]])

\* The non-null values of a sequence of cells, in order.
DropNa(vals) == SelectSeq(vals, NotNull)

\* Number of occurrences of v in a sequence.
Count(vals, v) == Cardinality({i \in 1..Len(vals) : vals[i] = v})

\* Series.mode(): the most frequent non-null values, sorted ascending.
\* ModeSet is that set; Mode is its first element (.iloc[0]).
ModeSet(vals) ==
    LET nn == DropNa(vals)
        S == {nn[i] : i \in 1..Len(nn)}
    IN {v \in S : \A w \in S : Count(nn, w) <= Count(nn, v)}

Mode(vals) ==
    LET M == ModeSet(vals)
    IN CHOOSE v \in M : \A w \in M : w = v \/ CellLess(v, w)

\* ------------------------------------------------------- transform.py steps
\* select_dtypes(include="object"): the columns that hold a string.
ObjectCols(d) == {c \in d.cols : \E i \in Idx(d) : d.rows[i][c].t = "str"}

\* standardize_types: strip every object column, then coerce the four numeric
\* columns with pd.to_numeric(errors='coerce').
standardize_types(d) ==
    LET oc == ObjectCols(d)
        stripped(i, c) == IF c \in oc THEN StrStripCell(d.rows[i][c]) ELSE d.rows[i][c]
    IN Frame(d.cols,
             [i \in Idx(d) |->
                [c \in d.cols |->
                    IF c \in NumericFields
                    THEN ToNumericCell(stripped(i, c))
                    ELSE stripped(i, c)]])

\* dropna(subset=[transaction_id, customer_name, product_name]) on one row.
HasIdentifiers(r) ==
    NotNull(r["transaction_id"]) /\ NotNull(r["customer_name"]) /\ NotNull(r["product_name"])

\* The boolean mask of .loc[...], aligned to the row by its label.
NotBothMissing(r) == ~(IsNull(r["product_name"]) /\ IsNull(r["product_category"]))

\* Mutant of KeepRow: the dropna on the three identifiers is left out.
KeepRowMaskOnly(r) == NotBothMissing(r)

KeepRow(r) == HasIdentifiers(r) /\ NotBothMissing(r)

\* Mutant of drop_invalid_rows: the first row is taken for a header and lost.
drop_invalid_rows_skip_first(d) ==
    Frame(d.cols, SelectSeq(IF Len(d.rows) = 0 THEN d.rows ELSE Tail(d.rows), KeepRow))

\* drop_invalid_rows: a new frame holding the rows that pass both tests.
drop_invalid_rows(d) == Frame(d.cols, SelectSeq(d.rows, KeepRow))

\* Series.fillna(v) on one cell.
FillNa(x, v) == IF IsNull(x) THEN v ELSE x

\* .mode().iloc[0] raises IndexError when the column has no non-null value.
ModeRaises(d, c) == Len(DropNa(Column(d, c))) = 0

\* df[c] = df[c].fillna(df[c].mode().iloc[0])
FillWithMode(d, c) ==
    LET m == Mode(Column(d, c))
    IN SetColumn(d, c, [i \in Idx(d) |-> FillNa(d.rows[i][c], m)])

handle_day_of_week(d) == FillWithMode(d, "day_of_week")

handle_store_location(d) == FillWithMode(d, "store_location")

\* df[missing].index: the positions whose column c is null, ascending.
RECURSIVE MissingFrom(_, _, _)
MissingFrom(d, c, i) ==
    IF i > Len(d.rows) THEN <<>>
    ELSE IF IsNull(d.rows[i][c]) THEN <<i>> \o MissingFrom(d, c, i + 1)
    ELSE MissingFrom(d, c, i + 1)

MissingIdx(d, c) == MissingFrom(d, c, 1)

\* Mutant of MatchValues: the comparison on product_name is left out, any row
\* with a value in c counts as a match.
MatchValuesAnyProduct(d, c, product) ==
    LET hit(r) == NotNull(r[c])
        rows == SelectSeq(d.rows, hit)
    IN [j \in 1..Len(rows) |-> rows[j][c]]

\* df[(df["product_name"] == product) & df[c].notnull()][c], read from the
\* frame as it is when the loop reaches the row.
MatchValues(d, c, product) ==
    LET hit(r) == EqCell(r["product_name"], product) /\ NotNull(r[c])
        rows == SelectSeq(d.rows, hit)
    IN [j \in 1..Len(rows) |-> rows[j][c]]

\* df.at[idx, c] = v
SetAt(d, idx, c, v) == Frame(d.cols, [d.rows EXCEPT ![idx] = [@ EXCEPT ![c] = v]])

\* Mutant of FillLoop: a row without a match is not put on rows_to_drop.
RECURSIVE FillLoopKeepUnmatched(_, _, _, _)
FillLoopKeepUnmatched(d, c, todo, drops) ==
    IF Len(todo) = 0 THEN [d |-> d, drops |-> drops]
    ELSE LET idx == Head(todo)
             match == MatchValues(d, c, d.rows[idx]["product_name"])
         IN IF Len(match) > 0
            THEN FillLoopKeepUnmatched(SetAt(d, idx, c, Mode(match)), c, Tail(todo), drops)
            ELSE FillLoopKeepUnmatched(d, c, Tail(todo), drops)

\* The for-loop of handle_product_category / handle_price over the rows that
\* were missing c when the step started: fills in place, collects rows_to_drop.
RECURSIVE FillLoop(_, _, _, _)
FillLoop(d, c, todo, drops) ==
    IF Len(todo) = 0 THEN [d |-> d, drops |-> drops]
    ELSE LET idx == Head(todo)
             match == MatchValues(d, c, d.rows[idx]["product_name"])
         IN IF Len(match) > 0
            THEN FillLoop(SetAt(d, idx, c, Mode(match)), c, Tail(todo), drops)
            ELSE FillLoop(d, c, Tail(todo), drops \cup {idx})

\* df.drop(index=rows_to_drop).reset_index(drop=True): a new frame.
RECURSIVE DropFrom(_, _, _)
DropFrom(rows, drops, i) ==
    IF i > Len(rows) THEN <<>>
    ELSE IF i \in drops THEN DropFrom(rows, drops, i + 1)
    ELSE <<rows[i]>> \o DropFrom(rows, drops, i + 1)

DropRows(d, drops) == Frame(d.cols, DropFrom(d.rows, drops, 1))

\* The frame the step was given, after the in-place fills of the loop.
FilledInPlace(d, c) == FillLoop(d, c, MissingIdx(d, c), {}).d

\* The frame the step returns.
GroupedFill(d, c) ==
    LET res == FillLoop(d, c, MissingIdx(d, c), {})
    IN DropRows(res.d, res.drops)

handle_product_category(d) == GroupedFill(d, "product_category")

handle_price(d) == GroupedFill(d, "price")

RECURSIVE SumCells(_)
SumCells(vals) == IF Len(vals) = 0 THEN 0 ELSE Head(vals).n + SumCells(Tail(vals))

\* Mutant of RoundHalfEven: int(x), the fraction is cut off.
RoundTruncate(num, den) == num \div den

\* round(x) of Python on num/den >= 0: nearest integer, a tie goes to the even one.
RoundHalfEven(num, den) ==
    LET q == num \div den
        r == num % den
    IN IF 2 * r < den THEN q
       ELSE IF 2 * r > den THEN q + 1
       ELSE IF q % 2 = 0 THEN q ELSE q + 1

\* round(df["quantity_sold"].mean()) raises ValueError when the mean is NaN,
\* that is when no quantity is present.
QuantityRaises(d) == Len(DropNa(Column(d, "quantity_sold"))) = 0

handle_quantity(d) ==
    LET nn == DropNa(Column(d, "quantity_sold"))
        mean_quantity == Num(RoundHalfEven(SumCells(nn), Len(nn)))
    IN SetColumn(d, "quantity_sold",
                 [i \in Idx(d) |-> FillNa(d.rows[i]["quantity_sold"], mean_quantity)])

\* price * quantity_sold on one row; NaN when either factor is NaN.
Product(r) ==
    IF NotNull(r["price"]) /\ NotNull(r["quantity_sold"])
    THEN Num(r["price"].n * r["quantity_sold"].n)
    ELSE Null

\* Mutant of compute_total_sale: total_sale is recomputed for every row, also
\* where a value was present.
compute_total_sale_all(d) ==
    Frame(d.cols, [i \in Idx(d) |-> [d.rows[i] EXCEPT !["total_sale"] = Product(d.rows[i])]])

\* df.loc[mask, "total_sale"] = price * quantity_sold where total_sale is null.
compute_total_sale(d) ==
    Frame(d.cols,
          [i \in Idx(d) |->
             IF IsNull(d.rows[i]["total_sale"])
             THEN [d.rows[i] EXCEPT !["total_sale"] = Product(d.rows[i])]
             ELSE d.rows[i]])

\* ------------------------------------------------------------ load.py model
\* The distinct non-null values of a sequence, in first-seen order.
RECURSIVE Uniques(_, _)
Uniques(vals, seen) ==
    IF Len(vals) = 0 THEN seen
    ELSE IF IsNull(Head(vals)) \/ \E k \in 1..Len(seen) : seen[k] = Head(vals)
         THEN Uniques(Tail(vals), seen)
         ELSE Uniques(Tail(vals), Append(seen, Head(vals)))

\* Mutant of Factorize: pd.factorize(values, sort=True), the codes follow the
\* sorted order of the distinct values instead of the order they are met in.
FactorizeSorted(vals) ==
    LET u == Uniques(vals, <<>>)
        S == {u[k] : k \in 1..Len(u)}
    IN [i \in 1..Len(vals) |->
          IF IsNull(vals[i]) THEN -1
          ELSE Cardinality({w \in S : CellLess(w, vals[i])})]

\* pd.factorize(values)[0]: the position of each value among the uniques,
\* counted from 0; a missing value gets -1.
Factorize(vals) ==
    LET u == Uniques(vals, <<>>)
    IN [i \in 1..Len(vals) |->
          IF IsNull(vals[i]) THEN -1
          ELSE (CHOOSE k \in 1..Len(u) : u[k] = vals[i]) - 1]

\* if id_col not in df.columns: df[id_col] = pd.factorize(df[name_col])[0] + 1
WithKey(d, id_col, name_col) ==
    IF id_col \in d.cols THEN d
    ELSE LET codes == Factorize(Column(d, name_col))
         IN Frame(d.cols \cup {id_col},
                  [i \in Idx(d) |->
                     [c \in d.cols \cup {id_col} |->
                        IF c = id_col THEN Num(codes[i] + 1) ELSE d.rows[i][c]]])

\* Lines 20-25: the working frame after the three keys were added in place.
WithKeys(d) ==
    WithKey(WithKey(WithKey(d, "customer_id", "customer_name"),
                    "product_id", "product_name"),
            "store_id", "store_location")

\* df[cols]: the rows cut down to the given columns.
Project(d, cols) == Frame(cols, [i \in Idx(d) |-> [c \in cols |-> d.rows[i][c]]])

\* drop_duplicates().reset_index(drop=True): the first of equal rows stays.
RECURSIVE DedupRows(_, _)
DedupRows(rows, kept) ==
    IF Len(rows) = 0 THEN kept
    ELSE IF \E k \in 1..Len(kept) : kept[k] = Head(rows)
         THEN DedupRows(Tail(rows), kept)
         ELSE DedupRows(Tail(rows), Append(kept, Head(rows)))

DropDuplicates(d) == Frame(d.cols, DedupRows(d.rows, <<>>))

CustomersOf(k) == DropDuplicates(Project(k, {"customer_id", "customer_name"}))

ProductsOf(k) ==
    DropDuplicates(Project(k, {"product_id", "product_name", "product_category"}))

StoresOf(k) == DropDuplicates(Project(k, {"store_id", "store_location"}))

\* df.drop(columns=[the four denormalized columns]).copy()
SalesOf(k) ==
    Project(k, k.cols \ {"customer_name", "product_name", "product_category",
                         "store_location"})

\* ------------------------------------------------------------- raw inputs
\* A well-formed raw row, and for each field the other values a raw row may
\* carry there: missing, a second value, a blank-padded string, text that is
\* no number.
BaseRow ==
    [transaction_id |-> Num(1), day_of_week |-> Str(<<"M">>),
     product_name |-> Str(<<"A">>), product_category |-> Str(<<"T">>),
     price |-> Num(5), quantity_sold |-> Num(2), total_sale |-> Num(10),
     store_location |-> Str(<<"P">>), customer_name |-> Str(<<"D">>)]

AltValues ==
    [transaction_id |-> {Null, Str(<<"x">>), Str(<<" ", "2">>)},
     day_of_week |-> {Null, Str(<<"T">>)},
     product_name |-> {Null, Str(<<"B">>), Str(<<" ", "A">>)},
     product_category |-> {Null, Str(<<"U">>)},
     price |-> {Null, Num(7)},
     quantity_sold |-> {Null, Num(1), Num(3)},
     total_sale |-> {Null, Num(9)},
     store_location |-> {Null, Str(<<"J">>)},
     customer_name |-> {Null, Str(<<"C">>)}]

\* A row that carries its identifiers and nothing else.
SparseRow ==
    [c \in RequiredFields |->
        IF c \in {"transaction_id", "product_name", "customer_name"}
        THEN BaseRow[c] ELSE Null]

RowPool ==
    {BaseRow, SparseRow}
    \cup UNION {{[BaseRow EXCEPT ![c] = v] : v \in AltValues[c]} : c \in RequiredFields}

RawRowSeqs == UNION {[1..n -> RowPool] : n \in 0..MaxRows}

RawFrames == {Frame(RequiredFields, rows) : rows \in RawRowSeqs}

NoFrame == Frame({}, <<>>)

\* ------------------------------------------------------------------- state
VARIABLES
    heap,       \* the DataFrame objects, by reference (position)
    df_raw,     \* transform_sales_data: its argument
    df,         \* transform_sales_data / model_sales_data: the working frame
    raw_df,     \* transform_sales_data: the raw copy it returns
    pc,         \* the statement the cleaning call is at
    err,        \* the exception a step raised, "" if none
    run,        \* 1: the call on the raw input, 2: the call on its own output
    raw0,       \* the value the argument had when the call started
    first,      \* the cleaned record set the first call returned
    customers, products, stores, sales,  \* model_sales_data: its tables
    raw_out,    \* model_sales_data: the raw frame it returns
    fpc,        \* main: the statement the flow is at
    exc,        \* main: the exception its try block caught, <<>> if none
    outcome,    \* main: the state it returned, "" while it runs
    message,    \* main: the message of that state
    ex_tries,   \* extract_from_mockaroo: failed attempts so far
    staged,     \* main: the record sets it holds (raw, cleaned, five outputs)
    up,         \* the five upload task runs: their state
    up_tries,   \* the five upload task runs: failed attempts so far
    s3,         \* the object store: what this run has put under each key
    confirm,    \* the confirm_s3_landing_complete task run: its state
    lam,        \* the invoke_lambda_loader task run: its state
    lam_tries,  \* invoke_lambda_loader: failed attempts so far
    lam_log,    \* the responses the loader function gave, one per invocation
    lam_exc     \* the exception of the last failed loader attempt

dataVars ==
    <<heap, df_raw, df, raw_df, pc, err, run, raw0, first,
      customers, products, stores, sales, raw_out>>

flowVars ==
    <<fpc, exc, outcome, message, ex_tries, staged, up, up_tries, s3, confirm,
      lam, lam_tries, lam_log, lam_exc>>

vars == <<dataVars, flowVars>>

\* Mutant of CopyFrame: no copy is made, the same object gets a second name.
AliasFrame(h, r) == [heap |-> h, ref |-> r]

\* DataFrame.copy(): a new object with the same values.
CopyFrame(h, r) == [heap |-> Append(h, h[r]), ref |-> Len(h) + 1]

\* A step that returns a new DataFrame: it is a new object of the heap.
NewFrame(h, d) == [heap |-> Append(h, d), ref |-> Len(h) + 1]

\* A step that assigns into its frame: the object changes where it is.
InPlace(h, r, d) == [h EXCEPT ![r] = d]

DataInit ==
    /\ \E d \in RawFrames : heap = <<d>> /\ raw0 = d
    /\ df_raw = 1
    /\ df = 0
    /\ raw_df = 0
    /\ pc = "call"
    /\ err = ""
    /\ run = 1
    /\ first = NoFrame
    /\ customers = NoFrame
    /\ products = NoFrame
    /\ stores = NoFrame
    /\ sales = NoFrame
    /\ raw_out = 0

tableVars == <<customers, products, stores, sales, raw_out>>

\* transform.py 95-97: df = df_raw.copy(); raw_df = df.copy()
MakeCopies ==
    /\ pc = "call"
    /\ LET c1 == CopyFrame(heap, df_raw)
           c2 == CopyFrame(c1.heap, c1.ref)
       IN /\ heap' = c2.heap
          /\ df' = c1.ref
          /\ raw_df' = c2.ref
    /\ pc' = "standardize_types"
    /\ UNCHANGED <<df_raw, err, run, raw0, first, tableVars, flowVars>>

StandardizeTypes ==
    /\ pc = "standardize_types"
    /\ heap' = InPlace(heap, df, standardize_types(heap[df]))
    /\ pc' = "drop_invalid_rows"
    /\ UNCHANGED <<df_raw, df, raw_df, err, run, raw0, first, tableVars, flowVars>>

DropInvalidRows ==
    /\ pc = "drop_invalid_rows"
    /\ LET n == NewFrame(heap, drop_invalid_rows(heap[df]))
       IN heap' = n.heap /\ df' = n.ref
    /\ pc' = "handle_day_of_week"
    /\ UNCHANGED <<df_raw, raw_df, err, run, raw0, first, tableVars, flowVars>>

\* Mutant of Raise: the step catches its exception and hands the frame back
\* as it is, so the call returns instead of failing.
RaiseSwallowed(e) ==
    /\ pc' = "return"
    /\ err' = e
    /\ UNCHANGED <<heap, df_raw, df, raw_df, run, raw0, first, tableVars, flowVars>>

\* A step that raises ends the call: pc = "raised", err names the exception.
Raise(e) ==
    /\ pc' = "raised"
    /\ err' = e
    /\ UNCHANGED <<heap, df_raw, df, raw_df, run, raw0, first, tableVars, flowVars>>

HandleDayOfWeek ==
    /\ pc = "handle_day_of_week"
    /\ IF ModeRaises(heap[df], "day_of_week")
       THEN Raise("IndexError")
       ELSE /\ heap' = InPlace(heap, df, handle_day_of_week(heap[df]))
            /\ pc' = "handle_product_category"
            /\ UNCHANGED <<df_raw, df, raw_df, err, run, raw0, first, tableVars, flowVars>>

HandleProductCategory ==
    /\ pc = "handle_product_category"
    /\ LET filled == InPlace(heap, df, FilledInPlace(heap[df], "product_category"))
           n == NewFrame(filled, handle_product_category(heap[df]))
       IN heap' = n.heap /\ df' = n.ref
    /\ pc' = "handle_price"
    /\ UNCHANGED <<df_raw, raw_df, err, run, raw0, first, tableVars, flowVars>>

HandlePrice ==
    /\ pc = "handle_price"
    /\ LET filled == InPlace(heap, df, FilledInPlace(heap[df], "price"))
           n == NewFrame(filled, handle_price(heap[df]))
       IN heap' = n.heap /\ df' = n.ref
    /\ pc' = "handle_quantity"
    /\ UNCHANGED <<df_raw, raw_df, err, run, raw0, first, tableVars, flowVars>>

HandleQuantity ==
    /\ pc = "handle_quantity"
    /\ IF QuantityRaises(heap[df])
       THEN Raise("ValueError")
       ELSE /\ heap' = InPlace(heap, df, handle_quantity(heap[df]))
            /\ pc' = "compute_total_sale"
            /\ UNCHANGED <<df_raw, df, raw_df, err, run, raw0, first, tableVars, flowVars>>

ComputeTotalSale ==
    /\ pc = "compute_total_sale"
    /\ heap' = InPlace(heap, df, compute_total_sale(heap[df]))
    /\ pc' = "handle_store_location"
    /\ UNCHANGED <<df_raw, df, raw_df, err, run, raw0, first, tableVars, flowVars>>

HandleStoreLocation ==
    /\ pc = "handle_store_location"
    /\ IF ModeRaises(heap[df], "store_location")
       THEN Raise("IndexError")
       ELSE /\ heap' = InPlace(heap, df, handle_store_location(heap[df]))
            /\ pc' = "return"
            /\ UNCHANGED <<df_raw, df, raw_df, err, run, raw0, first, tableVars, flowVars>>

\* transform.py 128: return df, raw_df
Return ==
    /\ pc = "return"
    /\ pc' = "returned"
    /\ first' = IF run = 1 THEN heap[df] ELSE first
    /\ UNCHANGED <<heap, df_raw, df, raw_df, err, run, raw0, tableVars, flowVars>>

\* The cleaned record set is given to transform_sales_data once more.
CleanAgain ==
    /\ pc = "returned"
    /\ run = 1
    /\ run' = 2
    /\ df_raw' = df
    /\ raw0' = heap[df]
    /\ pc' = "call"
    /\ UNCHANGED <<heap, df, raw_df, err, first, tableVars, flowVars>>

\* load.py 10-35: model_sales_data(df, raw_df)
ModelSalesData ==
    /\ pc = "returned"
    /\ LET keyed == WithKeys(heap[df])
       IN /\ heap' = InPlace(heap, df, keyed)
          /\ customers' = CustomersOf(keyed)
          /\ products' = ProductsOf(keyed)
          /\ stores' = StoresOf(keyed)
          /\ sales' = SalesOf(keyed)
    /\ raw_out' = raw_df
    /\ pc' = "modeled"
    /\ UNCHANGED <<df_raw, df, raw_df, err, run, raw0, first, flowVars>>

DataNext ==
    \/ MakeCopies
    \/ StandardizeTypes
    \/ DropInvalidRows
    \/ HandleDayOfWeek
    \/ HandleProductCategory
    \/ HandlePrice
    \/ HandleQuantity
    \/ ComputeTotalSale
    \/ HandleStoreLocation
    \/ Return
    \/ CleanAgain
    \/ ModelSalesData


\* ------------------------------------------------------ etl_flow.py: main
\* Task retries, as the task decorators set them.
ExtractRetries == 3
UploadRetries == 1
LoaderRetries == 1

\* The five upload tasks, in the order main submits them.
Uploads == <<"customers", "products", "stores", "sales", "raw">>

UploadSet == {Uploads[k] : k \in 1..Len(Uploads)}

\* The object key each upload task writes.
KeyOf(u) ==
    CASE u = "customers" -> "transformed_data/customers.csv"
      [] u = "products" -> "transformed_data/products.csv"
      [] u = "stores" -> "transformed_data/stores.csv"
      [] u = "sales" -> "transformed_data/sales.csv"
      [] OTHER -> "raw_data/raw_sales_data.csv"

Keys == {KeyOf(u) : u \in UploadSet}

\* The record sets extraction may deliver to the flow.
FlowSamples ==
    {Frame(RequiredFields, <<BaseRow>>),
     Frame(RequiredFields, <<BaseRow, SparseRow>>),
     Frame(RequiredFields, <<SparseRow>>)}

\* What lambda_client.invoke may do in one attempt: raise (the function was
\* not reached), or return a response, with or without FunctionError, that
\* carries the payload the remote function returned.
InvokeOutcomes ==
    {[raised |-> TRUE, FunctionError |-> FALSE, result |-> "none"],
     [raised |-> FALSE, FunctionError |-> FALSE, result |-> "loaded"],
     [raised |-> FALSE, FunctionError |-> TRUE, result |-> "errorA"],
     [raised |-> FALSE, FunctionError |-> TRUE, result |-> "errorB"]}

\* transform_sales_data as one call: the eight steps in order; the call ends
\* at the first step that raises.
TransformResult(d) ==
    LET s2 == drop_invalid_rows(standardize_types(d))
    IN IF ModeRaises(s2, "day_of_week") THEN [ok |-> FALSE, err |-> "IndexError", d |-> NoFrame]
       ELSE LET s5 == handle_price(handle_product_category(handle_day_of_week(s2)))
            IN IF QuantityRaises(s5) THEN [ok |-> FALSE, err |-> "ValueError", d |-> NoFrame]
               ELSE LET s7 == compute_total_sale(handle_quantity(s5))
                    IN IF ModeRaises(s7, "store_location")
                       THEN [ok |-> FALSE, err |-> "IndexError", d |-> NoFrame]
                       ELSE [ok |-> TRUE, err |-> "", d |-> handle_store_location(s7)]

NoStaged ==
    [k \in {"df_raw", "transformed_df", "customers", "products", "stores", "sales", "raw"}
        |-> NoFrame]

\* No data call is under way (the flow specification leaves these alone).
DataIdle ==
    /\ heap = <<>>
    /\ df_raw = 0
    /\ df = 0
    /\ raw_df = 0
    /\ pc = "idle"
    /\ err = ""
    /\ run = 1
    /\ raw0 = NoFrame
    /\ first = NoFrame
    /\ customers = NoFrame
    /\ products = NoFrame
    /\ stores = NoFrame
    /\ sales = NoFrame
    /\ raw_out = 0

\* main has been called and is at the top of its try block.
FlowStart(at) ==
    /\ fpc = at
    /\ exc = <<>>
    /\ outcome = ""
    /\ message = <<>>
    /\ ex_tries = 0
    /\ staged = NoStaged
    /\ up = [u \in UploadSet |-> "unsubmitted"]
    /\ up_tries = [u \in UploadSet |-> 0]
    /\ s3 = [k \in Keys |-> NoFrame]
    /\ confirm = "unsubmitted"
    /\ lam = "unsubmitted"
    /\ lam_tries = 0
    /\ lam_log = <<>>
    /\ lam_exc = <<>>

FlowInit == DataIdle /\ FlowStart("load_secret")

\* An exception raised inside the try block: control goes to the handler.
Throw(e) ==
    /\ fpc' = "except"
    /\ exc' = e

\* What a task run can be in once it has ended.
Final(st) == st \in {"completed", "failed"}

\* The state of a task run after a failed attempt: retried while retries are left.
AfterFailure(tries, retries) == IF tries < retries THEN "running" ELSE "failed"

\* etl_flow.py 71-88: Secret.load("credentials").get(), the four keys, the
\* boto3 client. A missing block or key raises.
LoadSecret ==
    /\ fpc = "load_secret"
    /\ \/ fpc' = "extract" /\ exc' = exc
       \/ Throw(<<"secret">>)
    /\ UNCHANGED <<outcome, message, ex_tries, staged, up, up_tries, s3, confirm,
                   lam, lam_tries, lam_log, lam_exc, dataVars>>

\* etl_flow.py 92: extract_from_mockaroo(api_key), called in line: one
\* attempt per step; a failed attempt is retried while retries are left,
\* and the last failure is raised into main.
Extract ==
    /\ fpc = "extract"
    /\ \/ \E d \in FlowSamples :
             /\ staged' = [staged EXCEPT !["df_raw"] = d]
             /\ fpc' = "transform"
             /\ UNCHANGED <<exc, ex_tries>>
       \/ /\ ex_tries < ExtractRetries
          /\ ex_tries' = ex_tries + 1
          /\ UNCHANGED <<fpc, exc, staged>>
       \/ /\ ex_tries = ExtractRetries
          /\ Throw(<<"extraction failed">>)
          /\ UNCHANGED <<ex_tries, staged>>
    /\ UNCHANGED <<outcome, message, up, up_tries, s3, confirm,
                   lam, lam_tries, lam_log, lam_exc, dataVars>>

\* etl_flow.py 97: transformed_df, raw_df = transform_sales_data(df_raw)
Transform ==
    /\ fpc = "transform"
    /\ LET r == TransformResult(staged["df_raw"])
       IN IF r.ok
          THEN /\ staged' = [staged EXCEPT !["transformed_df"] = r.d,
                                           !["raw"] = staged["df_raw"]]
               /\ fpc' = "model"
               /\ exc' = exc
          ELSE /\ Throw(<<r.err>>)
               /\ staged' = staged
    /\ UNCHANGED <<outcome, message, ex_tries, up, up_tries, s3, confirm,
                   lam, lam_tries, lam_log, lam_exc, dataVars>>

\* etl_flow.py 102: the five outputs of model_sales_data(transformed_df, raw_df)
Model ==
    /\ fpc = "model"
    /\ LET keyed == WithKeys(staged["transformed_df"])
       IN staged' = [staged EXCEPT !["transformed_df"] = keyed,
                                   !["customers"] = CustomersOf(keyed),
                                   !["products"] = ProductsOf(keyed),
                                   !["stores"] = StoresOf(keyed),
                                   !["sales"] = SalesOf(keyed)]
    /\ fpc' = "submit_uploads"
    /\ UNCHANGED <<exc, outcome, message, ex_tries, up, up_tries, s3, confirm,
                   lam, lam_tries, lam_log, lam_exc, dataVars>>

\* etl_flow.py 107-111: the next .submit() of an upload task; the task run
\* starts and main goes on without waiting for it.
SubmitUpload ==
    /\ fpc = "submit_uploads"
    /\ \E k \in 1..Len(Uploads) :
          /\ up[Uploads[k]] = "unsubmitted"
          /\ \A j \in 1..(k - 1) : up[Uploads[j]] # "unsubmitted"
          /\ up' = [up EXCEPT ![Uploads[k]] = "running"]
    /\ UNCHANGED <<fpc, exc, outcome, message, ex_tries, staged, up_tries, s3, confirm,
                   lam, lam_tries, lam_log, lam_exc, dataVars>>

\* load.py 38-52 under the task decorator (retries=1): one attempt of an
\* upload task run. put_object stores the CSV, or the attempt raises and
\* nothing is stored; a failed attempt is retried once, then the run has failed.
UploadAttempt(u) ==
    /\ up[u] = "running"
    /\ \/ /\ s3' = [s3 EXCEPT ![KeyOf(u)] = staged[u]]
          /\ up' = [up EXCEPT ![u] = "completed"]
          /\ up_tries' = up_tries
       \/ /\ up_tries' = [up_tries EXCEPT ![u] = @ + 1]
          /\ up' = [up EXCEPT ![u] = AfterFailure(up_tries[u], UploadRetries)]
          /\ s3' = s3
    /\ UNCHANGED <<fpc, exc, outcome, message, ex_tries, staged, confirm,
                   lam, lam_tries, lam_log, lam_exc, dataVars>>

\* etl_flow.py 116-122: confirm_s3_landing_complete.submit(the five futures);
\* main then blocks in .result().
SubmitConfirm ==
    /\ fpc = "submit_uploads"
    /\ \A u \in UploadSet : up[u] # "unsubmitted"
    /\ confirm' = "waiting"
    /\ fpc' = "await_confirm"
    /\ UNCHANGED <<exc, outcome, message, ex_tries, staged, up, up_tries, s3,
                   lam, lam_tries, lam_log, lam_exc, dataVars>>

\* Mutant of JoinUploads: one completed upload is enough for the join.
JoinAnyUpload(states) ==
    IF \E u \in UploadSet : states[u] = "completed" THEN "completed" ELSE "failed"

\* The join the confirmation run makes on the five futures it was given.
JoinUploads(states) ==
    IF \A u \in UploadSet : states[u] = "completed" THEN "completed" ELSE "failed"

\* etl_flow.py 18-50: the confirmation run. The engine resolves the futures
\* it was given before the body runs: it waits until all five upload runs
\* have ended, and the run does not complete unless all of them completed.
ConfirmRun ==
    /\ confirm = "waiting"
    /\ \A u \in UploadSet : Final(up[u])
    /\ confirm' = JoinUploads(up)
    /\ UNCHANGED <<fpc, exc, outcome, message, ex_tries, staged, up, up_tries, s3,
                   lam, lam_tries, lam_log, lam_exc, dataVars>>

\* etl_flow.py 122: .result() of the confirmation run returns, or raises.
AwaitConfirm ==
    /\ fpc = "await_confirm"
    /\ Final(confirm)
    /\ IF confirm = "completed"
       THEN fpc' = "invoke_loader" /\ exc' = exc
       ELSE Throw(<<"upstream upload did not complete">>)
    /\ UNCHANGED <<outcome, message, ex_tries, staged, up, up_tries, s3, confirm,
                   lam, lam_tries, lam_log, lam_exc, dataVars>>

\* etl_flow.py 127-130: invoke_lambda_loader.submit("s3-to-rds-loader")
SubmitLoader ==
    /\ fpc = "invoke_loader"
    /\ lam' = "running"
    /\ fpc' = "await_loader"
    /\ UNCHANGED <<exc, outcome, message, ex_tries, staged, up, up_tries, s3, confirm,
                   lam_tries, lam_log, lam_exc, dataVars>>

\* Mutant of LoaderRaises: the FunctionError key of the response is not looked at.
LoaderRaisesClientOnly(o) == o.raised

\* Whether one attempt of invoke_lambda_loader raises: the client call
\* raised, or the response holds FunctionError.
LoaderRaises(o) == o.raised \/ o.FunctionError

\* The exception of such an attempt; for a FunctionError it carries the
\* remote result.
LoaderException(o) ==
    IF o.raised THEN <<"client error">> ELSE <<"Lambda invocation failed", o.result>>

\* lambda_invoke.py 6-29 (retries=1): one attempt of the loader task run.
LoaderAttempt ==
    /\ lam = "running"
    /\ \E o \in InvokeOutcomes :
          /\ lam_log' = Append(lam_log, o)
          /\ IF LoaderRaises(o)
             THEN /\ lam_tries' = lam_tries + 1
                  /\ lam' = AfterFailure(lam_tries, LoaderRetries)
                  /\ lam_exc' = LoaderException(o)
             ELSE /\ lam' = "completed"
                  /\ UNCHANGED <<lam_tries, lam_exc>>
    /\ UNCHANGED <<fpc, exc, outcome, message, ex_tries, staged, up, up_tries, s3,
                   confirm, dataVars>>

\* The state main returns from the end of its try block.
ReturnCompleted == [type |-> "Completed", message |-> <<"Flow completed successfully">>]

\* The state main returns from its except block.
ReturnFailed(e) == [type |-> "Failed", message |-> <<"Flow failed">> \o e]

\* etl_flow.py 131-139: .result() of the loader run returns and main returns
\* Completed, or it raises the run's exception.
AwaitLoader ==
    /\ fpc = "await_loader"
    /\ Final(lam)
    /\ IF lam = "completed"
       THEN /\ outcome' = ReturnCompleted.type
            /\ message' = ReturnCompleted.message
            /\ fpc' = "done"
            /\ exc' = exc
       ELSE /\ Throw(lam_exc)
            /\ UNCHANGED <<outcome, message>>
    /\ UNCHANGED <<ex_tries, staged, up, up_tries, s3, confirm,
                   lam, lam_tries, lam_log, lam_exc, dataVars>>

\* etl_flow.py 141-145: except Exception as e: return Failed(message=...)
Except ==
    /\ fpc = "except"
    /\ outcome' = ReturnFailed(exc).type
    /\ message' = ReturnFailed(exc).message
    /\ fpc' = "done"
    /\ UNCHANGED <<exc, ex_tries, staged, up, up_tries, s3, confirm,
                   lam, lam_tries, lam_log, lam_exc, dataVars>>

FlowNext ==
    \/ LoadSecret
    \/ Extract
    \/ Transform
    \/ Model
    \/ SubmitUpload
    \/ \E u \in UploadSet : UploadAttempt(u)
    \/ SubmitConfirm
    \/ ConfirmRun
    \/ AwaitConfirm
    \/ SubmitLoader
    \/ LoaderAttempt
    \/ AwaitLoader
    \/ Except

\* The cleaning and modelling calls on their own: main is not running.
Init == DataInit /\ FlowStart("idle")

Spec == Init /\ [][DataNext]_vars

\* One run of main.
FlowSpec == FlowInit /\ [][FlowNext]_vars

\* ------------------------------------------- one cleaning step on its own
\* The record sets a single step is called on, as the tests call the steps
\* on a frame of their own: per step, rows that differ in the columns the
\* step reads, with values missing in any of them.
StepNames ==
    {"handle_product_category", "handle_price", "handle_quantity",
     "compute_total_sale"}

StepRowPool(step) ==
    CASE step = "handle_product_category" ->
            {[BaseRow EXCEPT !["product_name"] = p, !["product_category"] = v] :
                p \in {Null, Str(<<"A">>), Str(<<"B">>)},
                v \in {Null, Str(<<"T">>), Str(<<"U">>)}}
      [] step = "handle_price" ->
            {[BaseRow EXCEPT !["product_name"] = p, !["price"] = v] :
                p \in {Null, Str(<<"A">>), Str(<<"B">>)},
                v \in {Null, Num(5), Num(7)}}
      [] step = "handle_quantity" ->
            {[BaseRow EXCEPT !["quantity_sold"] = v] :
                v \in {Null, Num(1), Num(2), Num(3)}}
      [] OTHER ->
            {[BaseRow EXCEPT !["price"] = p, !["quantity_sold"] = q,
                             !["total_sale"] = t] :
                p \in {Null, Num(5)}, q \in {Null, Num(2)}, t \in {Null, Num(9)}}

StepFrames(step) ==
    {Frame(RequiredFields, rows) :
        rows \in UNION {[1..n -> StepRowPool(step)] : n \in 0..StepRows}}

\* The call is about to run one of the four steps on a frame d; raw0 keeps d.
StepInit ==
    /\ \E step \in StepNames :
          /\ pc = step
          /\ \E d \in StepFrames(step) : heap = <<d>> /\ raw0 = d
    /\ df_raw = 1
    /\ df = 1
    /\ raw_df = 0
    /\ err = ""
    /\ run = 1
    /\ first = NoFrame
    /\ customers = NoFrame
    /\ products = NoFrame
    /\ stores = NoFrame
    /\ sales = NoFrame
    /\ raw_out = 0
    /\ FlowStart("idle")

StepNext ==
    \/ HandleProductCategory
    \/ HandlePrice
    \/ HandleQuantity
    \/ ComputeTotalSale

\* The four row-wise steps, each from every frame of its pool, and on from
\* there through the steps that follow it.
StepSpec == StepInit /\ [][StepNext]_vars

\* ----------------------------------------------------------------- claims
\* The record set the cleaning call holds in df.
Cleaned == heap[df]

\* Some cell of the frame is null.
HasNull(d) == \E i \in Idx(d) : \E c \in d.cols : IsNull(d.rows[i][c])

\* C1: whenever transform_sales_data returns, every row of the cleaned record
\* set has a non-null value in each of the nine required fields.
NoNullsPostClean ==
    pc = "returned" =>
        \A i \in Idx(Cleaned) : \A c \in RequiredFields : NotNull(Cleaned.rows[i][c])

\* C1 witness: a raw record set with missing values came back cleaned with
\* all its rows, the missing values filled.
NoNullsPostCleanWitness ==
    /\ pc = "returned"
    /\ run = 1
    /\ HasNull(raw0)
    /\ Len(Cleaned.rows) = Len(raw0.rows)
    /\ Len(Cleaned.rows) > 1

\* The values of column c of table t, and whether they are pairwise distinct.
NoDuplicates(t, c) ==
    \A i, j \in Idx(t) : t.rows[i][c] = t.rows[j][c] => i = j

\* C2: the surrogate key column of each entity table has no duplicates.
KeysUnique ==
    pc = "modeled" =>
        /\ NoDuplicates(customers, "customer_id")
        /\ NoDuplicates(products, "product_id")
        /\ NoDuplicates(stores, "store_id")

\* The number of rows of table t whose column c holds v.
Matches(t, c, v) == Cardinality({i \in Idx(t) : t.rows[i][c] = v})

\* C3: every sales row's customer_id, product_id and store_id each match
\* exactly one row of the customers, products and stores table.
ForeignKeysResolve ==
    pc = "modeled" =>
        \A i \in Idx(sales) :
            /\ Matches(customers, "customer_id", sales.rows[i]["customer_id"]) = 1
            /\ Matches(products, "product_id", sales.rows[i]["product_id"]) = 1
            /\ Matches(stores, "store_id", sales.rows[i]["store_id"]) = 1

\* The first row of the cleaned record set that carries product name p.
FirstRowOf(d, p) ==
    d.rows[CHOOSE i \in Idx(d) :
              /\ d.rows[i]["product_name"] = p
              /\ \A j \in 1..(i - 1) : d.rows[j]["product_name"] # p]

\* C4: the products table has exactly one row per distinct product_name of
\* the cleaned record set, carrying the category of the first row met for it.
OneProductRowPerName ==
    pc = "modeled" =>
        \A i \in Idx(Cleaned) :
            LET p == Cleaned.rows[i]["product_name"]
            IN /\ Matches(products, "product_name", p) = 1
               /\ \A k \in Idx(products) :
                     products.rows[k]["product_name"] = p =>
                        products.rows[k]["product_category"]
                            = FirstRowOf(Cleaned, p)["product_category"]

\* A row no step can repair, judged on the record set after type
\* normalization: an identifier is missing, or the category or the price is
\* missing with no row of the same product to take it from.
Unrecoverable(d, i) ==
    \/ ~HasIdentifiers(d.rows[i])
    \/ /\ IsNull(d.rows[i]["product_category"])
       /\ Len(MatchValues(d, "product_category", d.rows[i]["product_name"])) = 0
    \/ /\ IsNull(d.rows[i]["price"])
       /\ Len(MatchValues(d, "price", d.rows[i]["product_name"])) = 0

\* C8: on a raw record set with at least one row, rows with an unrecoverable
\* defect are dropped and never make the call raise: a call raises only when a
\* fill column (day_of_week, quantity_sold, store_location) holds no value in
\* the whole record set, or in all of its repairable rows.
DroppedRowsNeverRaise ==
    (run = 1 /\ pc = "raised" /\ Len(raw0.rows) >= 1) =>
        LET d == standardize_types(raw0)
            ok == {i \in Idx(d) : ~Unrecoverable(d, i)}
        IN \E c \in {"day_of_week", "quantity_sold", "store_location"} :
              \/ \A i \in Idx(d) : IsNull(d.rows[i][c])
              \/ ok # {} /\ \A i \in ok : IsNull(d.rows[i][c])

\* C9: cleaning the cleaned record set again returns, and returns the same
\* record set: same rows, same order, same values.
CleaningIdempotent ==
    run = 2 => /\ pc # "raised"
               /\ pc = "returned" => Cleaned = first

\* C9 witness: the second call returned, on the output of a first call that
\* had dropped a row and filled a value.
CleaningIdempotentWitness ==
    /\ run = 2
    /\ pc = "returned"
    /\ Len(first.rows) = 1
    /\ Len(heap[1].rows) = 2
    /\ HasNull(heap[1])
    /\ Cleaned = first

\* C10: the raw record set is threaded through unmodified: the argument of
\* transform_sales_data keeps its value, the raw copy it returns equals it,
\* and model_sales_data returns that raw frame unchanged.
RawPassthrough ==
    /\ heap[df_raw] = raw0
    /\ pc \in {"returned", "modeled"} => heap[raw_df] = raw0
    /\ pc = "modeled" => heap[raw_out] = raw0

\* C10 witness: the tables were built from a record set cleaning had changed,
\* and the raw frame handed back still equals the input.
RawPassthroughWitness ==
    /\ pc = "modeled"
    /\ run = 1
    /\ first.rows # raw0.rows
    /\ Len(first.rows) < Len(raw0.rows)
    /\ heap[raw_out] = raw0

\* Some upload of this run has failed for good.
SomeUploadFailed == \E u \in UploadSet : up[u] = "failed"

\* C5: the loader invocation is submitted only after all five uploads have
\* completed, each file stored; once an upload has failed the confirmation
\* does not complete, the loader is never invoked and the run ends Failed.
LoaderOnlyAfterAllUploads ==
    /\ lam # "unsubmitted" =>
          \A u \in UploadSet : up[u] = "completed" /\ s3[KeyOf(u)] = staged[u]
    /\ SomeUploadFailed =>
          /\ lam = "unsubmitted"
          /\ lam_log = <<>>
          /\ confirm # "completed"
          /\ fpc \notin {"invoke_loader", "await_loader"}
          /\ fpc = "done" => outcome = "Failed"

\* C5 witness: the loader was invoked in a run where an upload failed once
\* and completed on its retry, and another completed before all were submitted.
LoaderOnlyAfterAllUploadsWitness ==
    /\ lam = "completed"
    /\ up_tries["products"] = 1
    /\ up_tries["customers"] = 0
    /\ Len(lam_log) = 1

\* C6: when main has finished, either all five files were written by the
\* run or none was.
AllOrNothing ==
    fpc = "done" =>
        \/ \A k \in Keys : s3[k] # NoFrame
        \/ \A k \in Keys : s3[k] = NoFrame

\* Every stage of the run succeeded.
AllStagesSucceeded ==
    /\ staged["df_raw"] # NoFrame
    /\ staged["transformed_df"] # NoFrame
    /\ staged["customers"] # NoFrame
    /\ \A u \in UploadSet : up[u] = "completed"
    /\ confirm = "completed"
    /\ lam = "completed"

\* The exception the stage that failed has raised, read off the run.
FailureReason ==
    IF staged["df_raw"] = NoFrame THEN {<<"secret">>, <<"extraction failed">>}
    ELSE IF staged["transformed_df"] = NoFrame
         THEN {<<TransformResult(staged["df_raw"]).err>>}
    ELSE IF SomeUploadFailed THEN {<<"upstream upload did not complete">>}
    ELSE {LoaderException(lam_log[Len(lam_log)])}

\* main ends with one outcome: Completed exactly when every stage succeeded,
\* otherwise Failed with the failure reason in the message; an exception is
\* always on its way to the handler, never out of main.
OneOutcome ==
    /\ exc # <<>> => fpc \in {"except", "done"}
    /\ fpc # "done" => outcome = ""
    /\ fpc = "done" =>
          /\ outcome \in {"Completed", "Failed"}
          /\ outcome = "Completed" <=> AllStagesSucceeded
          /\ outcome = "Completed" => exc = <<>>
          /\ outcome = "Failed" =>
                /\ exc \in FailureReason
                /\ message = <<"Flow failed">> \o exc

\* C7 as stated: main ends with one outcome as above, and a loader response
\* containing FunctionError yields Failed with the remote result in the
\* message, never Completed.
OneOutcomeAnyFunctionError ==
    /\ OneOutcome
    /\ fpc = "done" =>
          \A k \in 1..Len(lam_log) :
              lam_log[k].FunctionError => outcome = "Failed"

\* C7 as amended: main ends with one outcome as above; when the last attempt
\* of the loader run (the first, or its one retry) got a response containing
\* FunctionError, main returns Failed with that remote result in the message,
\* never Completed.
OneOutcomeLastFunctionError ==
    /\ OneOutcome
    /\ (fpc = "done" /\ Len(lam_log) > 0 /\ lam_log[Len(lam_log)].FunctionError) =>
          /\ outcome = "Failed"
          /\ message = <<"Flow failed", "Lambda invocation failed",
                         lam_log[Len(lam_log)].result>>

\* C7 witness: main returned Failed after two loader attempts that both got a
\* FunctionError response, the message carrying the result of the second.
OneOutcomeWitness ==
    /\ fpc = "done"
    /\ outcome = "Failed"
    /\ Len(lam_log) = 2
    /\ lam_log[1].FunctionError /\ lam_log[1].result = "errorA"
    /\ lam_log[2].FunctionError /\ lam_log[2].result = "errorB"
    /\ message = <<"Flow failed", "Lambda invocation failed", "errorB">>

\* Column c of the frame holds no value at all (also when the frame is empty).
NoValue(d, c) == \A i \in Idx(d) : IsNull(d.rows[i][c])

\* The first fill rule that finds its source column without a value when it
\* runs on the call's argument d: day_of_week after the hard drop,
\* quantity_sold after the two grouped fills, store_location after total_sale;
\* "" when every fill rule finds a value.
EmptySourceOf(d) ==
    LET s2 == drop_invalid_rows(standardize_types(d))
    IN IF NoValue(s2, "day_of_week") THEN "day_of_week"
       ELSE LET s5 == handle_price(handle_product_category(handle_day_of_week(s2)))
            IN IF NoValue(s5, "quantity_sold") THEN "quantity_sold"
               ELSE IF NoValue(compute_total_sale(handle_quantity(s5)), "store_location")
                    THEN "store_location"
                    ELSE ""

\* A returned record set holds no null in the three globally filled columns.
FillColumnsFilled ==
    pc = "returned" =>
        \A i \in Idx(Cleaned) :
            \A c \in {"day_of_week", "quantity_sold", "store_location"} :
                NotNull(Cleaned.rows[i][c])

\* C11 as stated: when a fill rule's source column has no non-null value at
\* the moment the rule runs (the record set having become empty included),
\* transform_sales_data fails with EmptyDistributionError, and it never
\* returns a record set with a null in that column.
EmptySourceFailsEmptyDistributionError ==
    /\ (pc \in {"returned", "raised"} /\ EmptySourceOf(raw0) # "") =>
          pc = "raised" /\ err = "EmptyDistributionError"
    /\ FillColumnsFilled

\* C11 as amended: in that case transform_sales_data fails with the error
\* the aggregation itself raises, IndexError from mode().iloc[0] for
\* day_of_week and store_location, ValueError from round() of the NaN mean
\* for quantity_sold, and it never returns a record set with a null in that
\* column.
EmptySourceFails ==
    /\ (pc \in {"returned", "raised"} /\ EmptySourceOf(raw0) # "") =>
          /\ pc = "raised"
          /\ err = IF EmptySourceOf(raw0) = "quantity_sold"
                   THEN "ValueError" ELSE "IndexError"
    /\ FillColumnsFilled

\* C11 witness: the call failed at the mean fill, on two rows that both
\* survived to it and neither of which carries a quantity.
EmptySourceFailsWitness ==
    /\ pc = "raised"
    /\ err = "ValueError"
    /\ Len(raw0.rows) = 2
    /\ Len(Cleaned.rows) = 2
    /\ EmptySourceOf(raw0) = "quantity_sold"

\* The position of the first row of d whose column c holds v.
FirstSeen(d, c, v) ==
    CHOOSE i \in Idx(d) : d.rows[i][c] = v /\ \A j \in 1..(i - 1) : d.rows[j][c] # v

\* Table t lists the distinct values of column name_col of d, one row each, in
\* the order d first shows them, the k-th row carrying key k.
FirstSeenKeyed(t, d, id_col, name_col) ==
    /\ {t.rows[k][name_col] : k \in Idx(t)} = {d.rows[i][name_col] : i \in Idx(d)}
    /\ \A k \in Idx(t) : t.rows[k][id_col] = Num(k)
    /\ \A k, l \in Idx(t) :
          k < l => /\ t.rows[k][name_col] # t.rows[l][name_col]
                   /\ FirstSeen(d, name_col, t.rows[k][name_col])
                         < FirstSeen(d, name_col, t.rows[l][name_col])

\* C12: the customers table has one row per distinct customer_name and the
\* stores table one row per distinct store_location of the cleaned record
\* set, in first-seen order, with keys 1, 2, ..., n assigned in that order.
DimensionsFirstSeen ==
    pc = "modeled" =>
        /\ FirstSeenKeyed(customers, Cleaned, "customer_id", "customer_name")
        /\ FirstSeenKeyed(stores, Cleaned, "store_id", "store_location")

\* C12 witness: two customers and two stores were modelled, the stores met
\* in an order that is not their sorted order.
DimensionsFirstSeenWitness ==
    /\ pc = "modeled"
    /\ Len(customers.rows) = 2
    /\ Len(stores.rows) = 2
    /\ CellLess(stores.rows[2]["store_location"], stores.rows[1]["store_location"])
    /\ stores.rows[1]["store_id"] = Num(1)

\* The rows of d that carry the product_name of row i and a value in c.
SnapshotMatches(d, c, i) ==
    {j \in Idx(d) :
        /\ NotNull(d.rows[j][c])
        /\ NotNull(d.rows[j]["product_name"])
        /\ d.rows[j]["product_name"] = d.rows[i]["product_name"]}

\* The most frequent value of c among those rows, the smallest of tied ones.
SnapshotMode(d, c, i) ==
    LET J == SnapshotMatches(d, c, i)
        V == {d.rows[j][c] : j \in J}
        freq(v) == Cardinality({j \in J : d.rows[j][c] = v})
        top == {v \in V : \A w \in V : freq(w) <= freq(v)}
    IN CHOOSE v \in top : \A w \in top : w = v \/ CellLess(v, w)

\* The snapshot-based grouped fill of column c: every lookup reads d as it is
\* when the step starts; rows without a match go once all lookups are done;
\* rows that had a value stay as they are.
SnapshotFill(d, c) ==
    LET filled == [i \in Idx(d) |->
                     IF NotNull(d.rows[i][c]) \/ SnapshotMatches(d, c, i) = {}
                     THEN d.rows[i]
                     ELSE [d.rows[i] EXCEPT ![c] = SnapshotMode(d, c, i)]]
        has(r) == NotNull(r[c])
    IN Frame(d.cols, SelectSeq(filled, has))

\* C13: handle_product_category returns what the snapshot-based grouped fill
\* of product_category returns on the record set it was given, although it
\* writes each fill into the record set while it iterates.
CategoryFillIsSnapshotFill ==
    [][(pc = "handle_product_category" /\ pc' = "handle_price") =>
          heap'[df'] = SnapshotFill(heap[df], "product_category")]_vars

\* C13 witness: the step ran on four rows of one product, two without a
\* category and two with tied categories; both were filled with the same one.
CategoryFillIsSnapshotFillWitness ==
    /\ pc = "handle_price"
    /\ Len(heap) = 2
    /\ Len(raw0.rows) = 4
    /\ \A i \in 1..4 : raw0.rows[i]["product_name"] = Str(<<"A">>)
    /\ IsNull(raw0.rows[1]["product_category"])
    /\ IsNull(raw0.rows[2]["product_category"])
    /\ raw0.rows[3]["product_category"] = Str(<<"U">>)
    /\ raw0.rows[4]["product_category"] = Str(<<"T">>)
    /\ Len(Cleaned.rows) = 4
    /\ Cleaned.rows[1]["product_category"] = Str(<<"T">>)
    /\ Cleaned.rows[2]["product_category"] = Str(<<"T">>)

\* The rows of d, in order, for which keep holds of their position.
RECURSIVE KeptFrom(_, _, _)
KeptFrom(d, keep, i) ==
    IF i > Len(d.rows) THEN <<>>
    ELSE IF i \in keep THEN <<i>> \o KeptFrom(d, keep, i + 1)
    ELSE KeptFrom(d, keep, i + 1)

\* C14: handle_price keeps each row without a price whose product_name has a
\* price in some row and gives it the mode of those prices, removes each row
\* without a price whose product_name has a price in no row, and keeps every
\* row that has a price as it is; the rows kept stay in their order.
PriceFillKeepsOrRemoves ==
    [][(pc = "handle_price" /\ pc' = "handle_quantity") =>
          LET d == heap[df]
              keep == {i \in Idx(d) :
                          \/ NotNull(d.rows[i]["price"])
                          \/ SnapshotMatches(d, "price", i) # {}}
              kept == KeptFrom(d, keep, 1)
              out == heap'[df']
          IN /\ Len(out.rows) = Len(kept)
             /\ \A k \in 1..Len(kept) :
                   LET i == kept[k]
                   IN IF NotNull(d.rows[i]["price"])
                      THEN out.rows[k] = d.rows[i]
                      ELSE out.rows[k] =
                              [d.rows[i] EXCEPT !["price"] = SnapshotMode(d, "price", i)]]_vars

\* C14 witness: the step ran on four rows, filled the missing price of a
\* product from the two rows that had it, and removed the row of a product
\* that has no price anywhere.
PriceFillKeepsOrRemovesWitness ==
    /\ pc = "handle_quantity"
    /\ Len(heap) = 2
    /\ Len(raw0.rows) = 4
    /\ raw0.rows[1]["product_name"] = Str(<<"B">>) /\ IsNull(raw0.rows[1]["price"])
    /\ raw0.rows[2]["product_name"] = Str(<<"A">>) /\ IsNull(raw0.rows[2]["price"])
    /\ raw0.rows[3]["product_name"] = Str(<<"A">>) /\ raw0.rows[3]["price"] = Num(7)
    /\ raw0.rows[4]["product_name"] = Str(<<"A">>) /\ raw0.rows[4]["price"] = Num(7)
    /\ Len(Cleaned.rows) = 3
    /\ Cleaned.rows[1]["product_name"] = Str(<<"A">>)
    /\ Cleaned.rows[1]["price"] = Num(7)

\* Frames a and b have the same rows but for the values of column c.
SameButColumn(a, b, c) ==
    /\ a.cols = b.cols
    /\ Len(a.rows) = Len(b.rows)
    /\ \A i \in Idx(a) : \A x \in a.cols \ {c} : a.rows[i][x] = b.rows[i][x]

\* C15: compute_total_sale sets total_sale to the row's own price times
\* quantity_sold (missing when a factor is missing) in exactly the rows whose
\* total_sale was null, leaves a total_sale that was present as it is, also
\* when it differs from that product, and changes no other column and no
\* row count.
TotalSaleOnlyWhereMissing ==
    [][(pc = "compute_total_sale" /\ pc' = "handle_store_location") =>
          LET d == heap[df]
              out == heap'[df']
          IN /\ df' = df
             /\ SameButColumn(d, out, "total_sale")
             /\ \A i \in Idx(d) :
                   LET r == d.rows[i]
                   IN IF NotNull(r["total_sale"])
                      THEN out.rows[i]["total_sale"] = r["total_sale"]
                      ELSE IF IsNull(r["price"]) \/ IsNull(r["quantity_sold"])
                           THEN IsNull(out.rows[i]["total_sale"])
                           ELSE /\ out.rows[i]["total_sale"].t = "num"
                                /\ out.rows[i]["total_sale"].n
                                      = r["price"].n * r["quantity_sold"].n]_vars

\* C15 witness: the step ran on two rows, one without a total_sale, which
\* got 5 * 2, and one with a total_sale of 9 at the same price and quantity,
\* which kept it.
TotalSaleOnlyWhereMissingWitness ==
    /\ pc = "handle_store_location"
    /\ Len(heap) = 1
    /\ Len(raw0.rows) = 2
    /\ IsNull(raw0.rows[1]["total_sale"])
    /\ raw0.rows[2]["total_sale"] = Num(9)
    /\ \A i \in 1..2 : raw0.rows[i]["price"] = Num(5) /\ raw0.rows[i]["quantity_sold"] = Num(2)
    /\ Cleaned.rows[1]["total_sale"] = Num(10)
    /\ Cleaned.rows[2]["total_sale"] = Num(9)

\* C16: handle_quantity puts one and the same integer in every row whose
\* quantity_sold was null, an integer nearest to the mean of the quantities
\* present (at most one half away from it), and changes nothing else.
QuantityFilledWithRoundedMean ==
    [][(pc = "handle_quantity" /\ pc' = "compute_total_sale") =>
          LET d == heap[df]
              out == heap'[df']
              present == {i \in Idx(d) : NotNull(d.rows[i]["quantity_sold"])}
              n == Cardinality(present)
              total == SumCells(DropNa(Column(d, "quantity_sold")))
          IN /\ df' = df
             /\ SameButColumn(d, out, "quantity_sold")
             /\ \A i \in present : out.rows[i]["quantity_sold"] = d.rows[i]["quantity_sold"]
             /\ \E m \in 0..3 :
                   /\ 2 * (n * m - total) <= n
                   /\ 2 * (total - n * m) <= n
                   /\ \A i \in Idx(d) \ present : out.rows[i]["quantity_sold"] = Num(m)]_vars

\* C16 witness: the step ran on the quantities [2, 1, null, 2] and filled
\* the null with 2.
QuantityFilledWithRoundedMeanWitness ==
    /\ pc = "compute_total_sale"
    /\ Len(heap) = 1
    /\ Len(raw0.rows) = 4
    /\ [i \in 1..4 |-> raw0.rows[i]["quantity_sold"]] = <<Num(2), Num(1), Null, Num(2)>>
    /\ [i \in 1..4 |-> Cleaned.rows[i]["quantity_sold"]] = <<Num(2), Num(1), Num(2), Num(2)>>

====
